---- MODULE Spec2Model ----
(***************************************************************************)
(* Model of the repartition command of ffparquet (src/src/main.rs): the    *)
(* main thread, the single reader thread, the bounded shared queue, the    *)
(* credit pool and the writer workers.                                     *)
(*                                                                         *)
(* A decoded batch is represented by its 1-based position in the source;   *)
(* an output file is the sequence of batches that were written into it.    *)
(*                                                                         *)
(* The merge and split commands (src/src/cmd/merge.rs, split.rs) are       *)
(* modelled over a file system of containers: a container is its schema,   *)
(* the metadata of its row groups, the byte extents of its data section    *)
(* and whether its footer was written.                                     *)
(***************************************************************************)
EXTENDS Integers, Sequences, FiniteSets, TLC

(***************************************************************************)
(* Bounds of the model and constants of the program                        *)
(***************************************************************************)

\* at most this many injected I/O faults (create, write, close) in one run
MaxFaults == 1


\* the split sources have 0..MaxGroups row groups
MaxGroups == 7

\* iterations of split's `while left > 0` loop that are explored; only a
\* run with groups = 0, whose loop never ends, reaches it
MaxOutputs == 10

\* at most this many inputs on merge's command line
MaxInputs == 3

\* `let batch_size = 10000;`
batch_size == 10000

\* `mpsc::sync_channel::<Message>(16)`
QueueCap == 16

\* the u32 multiplication that yields row_limit_per_file is carried out on
\* 16-bit limbs (2^32 = Limb * Limb) and the u16 factor on 8-bit halves, so
\* that no intermediate value leaves the range of 32-bit signed integers
Limb == 65536
Half == 256

\* exit status of a Rust process whose main thread panicked
PanicExit == 101

\* the identities of the worker threads the fairness condition ranges over
WorkerIds == 0..2

\* values of the command line arguments and of the source's row count
GroupsValues == {0, 1, 4}
SizeValues == {0, 10000, 2^30}
JobsValues == {0, 1, 2}
RowsValues == {0, 9999, 10000, 20000, 25000}

\* a source of more batches than the shared queue holds, repartitioned into
\* one output file
LargeRows == {170000}
LargeGroups == {1}
LargeSizes == {2^30}

(***************************************************************************)
(* State                                                                   *)
(***************************************************************************)
VARIABLES
    args,                \* the parsed command line (struct Args)
    total_rows,          \* num_rows() of the source's metadata
    mainPc,              \* position of the main thread
    exitCode,            \* exit status of the process, -1 while it runs
    reported,            \* error messages written to the error stream
    row_limit_per_file,
    total_tasks,
    queue,               \* the sync_channel (tx, rx)
    credits,             \* number of messages in the channel (thread_tx, thread_rx)
    readerPc,            \* position of the reader thread
    readPos,             \* number of batches the reader has decoded
    doneSent,            \* iterations completed of the reader's DONE loop
    decodeFailed,        \* reader.next() returned an Err
    sent,                \* every message the reader has enqueued, in order
    spawned,             \* iterations completed of the spawn loop
    joined,              \* number of threads popped and joined
    worker,              \* position of each worker thread
    file,                \* content of each output file
    dequeued,            \* the messages each worker has received, in order
    endedBy,             \* how each worker left its receive loop
    closes,              \* number of times each worker closed its writer
    writeFailed,         \* <<worker, batch>> pairs whose write returned Err
    created,             \* <<file name, worker>> for every File::create of a worker
    faults,              \* number of injected I/O faults
    cmd,                 \* the transplant command that runs: merge or split
    targs,               \* its parsed command line (merge::Args, split::Args)
    fs,                  \* the file system: path -> container
    tpc,                 \* position in merge_main / split_main
    result,              \* what merge_main / split_main returned
    writer,              \* the SerializedFileWriter in scope
    inputs,              \* merge: the opened inputs, in command line order
    cur,                 \* merge: position of the two nested loops
    output_idx,          \* split: output_idx
    left,                \* split: left
    rg_pos,              \* split: number of row groups taken from rg_iter
    in_file,             \* split: iterations completed of `for _ in 0..args.groups`
    origin,              \* the source of the split whose parts are merged
    previous             \* what an earlier run of the command left behind

vars == <<args, total_rows, mainPc, exitCode, reported,
          row_limit_per_file, total_tasks, queue, credits, readerPc, readPos,
          doneSent, decodeFailed, sent, spawned, joined, worker, file,
          dequeued, endedBy, closes, writeFailed, created, faults,
          cmd, targs, fs, tpc, result, writer, inputs, cur, output_idx,
          left, rg_pos, in_file, origin, previous>>

mainVars == <<mainPc, exitCode, reported, row_limit_per_file, total_tasks,
              spawned, joined>>
readerVars == <<readerPc, readPos, doneSent, decodeFailed, sent>>
workerVars == <<worker, file, dequeued, endedBy, closes, writeFailed, created,
                faults>>
inputVars == <<args, total_rows, previous>>
tpVars == <<cmd, targs, fs, tpc, result, writer, inputs, cur, output_idx,
            left, rg_pos, in_file, origin>>
repVars == <<inputVars, mainVars, queue, credits, readerVars, worker, file,
             dequeued, endedBy, closes, writeFailed, created>>

(***************************************************************************)
(* Messages and pure helpers                                               *)
(***************************************************************************)

\* enum Message { DONE, CONTENT(Box<RecordBatch>) }
DONE == [tag |-> "DONE", data |-> 0]
CONTENT(k) == [tag |-> "CONTENT", data |-> k]

\* number of batches a reader built with_batch_size(batch_size) yields for R rows
NumBatches(R) == (R + batch_size - 1) \div batch_size

\* rows of the k-th batch (1-based) of a source of R rows
BatchRows(R, k) == IF k < NumBatches(R) THEN batch_size
                   ELSE R - batch_size * (NumBatches(R) - 1)

\* a * b for a u16 a and a u32 b, as the pair <<(a * b) \div 2^16,
\* (a * b) % 2^16>>
Mul32(a, b) ==
    LET bh == b \div Limb
        bl == b % Limb
        ah == a \div Half
        al == a % Half
        t == ah * bl
        low == (t % Half) * Half + al * bl
    IN <<a * bh + t \div Half + low \div Limb, low % Limb>>

\* `args.max_row_group_count as u32 * args.max_row_group_size` in a build
\* without overflow checks: the low 32 bits of the product
WrappingMul32(a, b) == (Mul32(a, b)[1] % Limb) * Limb + Mul32(a, b)[2]

\* the multiplication overflows u32
MulOverflows32(a, b) == Mul32(a, b)[1] >= Limb

\* the match on row_limit_per_file that yields total_tasks
TotalTasks(R, S, J) ==
    IF S = 0
    THEN IF R < batch_size THEN 1 ELSE J
    ELSE R \div S + 1

\* a pool filled by `for _i in 0..=args.jobs`
InitialCreditsInclusive(J) == J + 1

\* the credits placed in the pool before any worker is spawned
InitialCredits(J) == J

\* a DONE loop over `0..=total_tasks`
DoneSignalsInclusive(T) == T + 1

\* the number of iterations of the reader's DONE loop
DoneSignals(T) == T

\* a spawn iteration that leaves the credit in the pool
TakeCreditFree(c) == c

\* `let _ = thread_rx.recv();`: one credit is taken out of the pool
TakeCredit(c) == c - 1

\* a send on an unbounded channel never blocks
HasRoomUnbounded(q) == TRUE

\* SyncSender::send completes only while the channel holds fewer messages
\* than its bound; otherwise the sender blocks
HasRoom(q) == Len(q) < QueueCap

\* the decimal digits that `{}` formats an unsigned integer to
RECURSIVE Digits(_)
Digits(n) == IF n < 10 THEN <<n>> ELSE Digits(n \div 10) \o <<n % 10>>

\* the digits d as `{:0w}` pads them: zeros are put in front up to width w
RECURSIVE PadZero(_, _)
PadZero(d, w) == IF Len(d) >= w THEN d ELSE PadZero(<<0>> \o d, w)

\* an output name that leaves out the index
OutfileNameShared(i) == Digits(0)

\* `format!("{target_prefix}_{i}.parquet")`: the name of worker i's output,
\* represented by the digits that tell the names of one run apart
OutfileName(i) == Digits(i)

\* a writer that puts a new batch in front of the ones it holds
WriteBatchFront(f, b) == <<b>> \o f

\* `w1.write(data.as_ref())`: the batch is appended to the file's rows
WriteBatch(f, b) == Append(f, b)

RECURSIVE SumRows(_, _)
SumRows(R, s) == IF s = <<>> THEN 0
                 ELSE BatchRows(R, Head(s)) + SumRows(R, Tail(s))

Workers == DOMAIN worker

\* the command was not run before: no output file exists
NoRun == [ran |-> FALSE, outputs |-> <<>>, endedBy |-> <<>>]

\* the content of output file i before the run creates it
ExistingContent(i) ==
    IF previous.ran /\ i \in DOMAIN previous.outputs
    THEN previous.outputs[i] ELSE <<>>

\* File::create "will truncate it if it does" exist
Truncated(f) == <<>>

\* the process is alive: main has neither returned nor panicked
Running == exitCode = -1

\* workers whose output file is open
OpenWorkers == {i \in Workers : worker[i] \in {"open", "closing"}}

(***************************************************************************)
(* Containers, paths and the file system of merge and split                *)
(***************************************************************************)

\* a path is <<stem, number>>; split renders its outputs as
\* "<stem>_<number:04>.parquet", the other files are named by their stem
NoPath == <<>>

\* schemas: an ordered list of named, typed leaf columns
SchemaA == <<[name |-> "id", type |-> "INT64"], [name |-> "v", type |-> "DOUBLE"]>>
SchemaB == <<[name |-> "id", type |-> "INT64"], [name |-> "v", type |-> "BYTE_ARRAY"]>>
SchemaC == <<[name |-> "id", type |-> "INT64"]>>

\* a file that was created and holds nothing yet
EmptyFile == [schema |-> <<>>, magic |-> FALSE, row_groups |-> <<>>,
              extents |-> <<>>, closed |-> FALSE]

\* a writer that forgets the schema it was given
NewContainerSchemaless(schema) == [EmptyFile EXCEPT !.magic = TRUE]

\* SerializedFileWriter::new on a created file: the schema is fixed and the
\* magic written
NewContainer(schema) == [EmptyFile EXCEPT !.schema = schema, !.magic = TRUE]

\* the column chunks of row group k of the file tagged t, laid out from
\* position pos on; the result is <<chunk metadata, extents, next position>>
RECURSIVE LayoutColumns(_, _, _, _, _, _)
LayoutColumns(t, schema, k, rows, c, pos) ==
    IF c > Len(schema) THEN <<<<>>, <<>>, pos>>
    ELSE LET size == 10 + k + c
             rest == LayoutColumns(t, schema, k, rows, c + 1, pos + size)
             meta == [column |-> schema[c].name,
                      offset |-> pos,
                      compressed_size |-> size,
                      uncompressed_size |-> 3 * size,
                      compression |-> IF c = 1 THEN "ZSTD" ELSE "SNAPPY",
                      encodings |-> <<"PLAIN", "RLE">>,
                      num_values |-> rows,
                      statistics |-> [min |-> k, max |-> k + rows]]
             ext == [offset |-> pos, len |-> size, bytes |-> <<t, k, c>>]
         IN <<<<meta>> \o rest[1], <<ext>> \o rest[2], rest[3]>>

\* the row groups k.. of a file whose row groups have rowsSeq rows
RECURSIVE LayoutGroups(_, _, _, _, _)
LayoutGroups(t, schema, rowsSeq, k, pos) ==
    IF k > Len(rowsSeq) THEN <<<<>>, <<>>>>
    ELSE LET cols == LayoutColumns(t, schema, k, rowsSeq[k], 1, pos)
             rest == LayoutGroups(t, schema, rowsSeq, k + 1, cols[3])
         IN <<<<[num_rows |-> rowsSeq[k], columns |-> cols[1]]>> \o rest[1],
              cols[2] \o rest[2]>>

\* a well-formed, closed container; its data section starts after the
\* 4-byte magic
MagicLen == 4

MakeFile(t, schema, rowsSeq) ==
    LET g == LayoutGroups(t, schema, rowsSeq, 1, MagicLen)
    IN [schema |-> schema, magic |-> TRUE, row_groups |-> g[1],
        extents |-> g[2], closed |-> TRUE]

\* the file system every merge and split starts from
SourcePath(n) == <<"src", n>>

InitialFiles ==
    [p \in {<<"a", 0>>, <<"b", 0>>, <<"c", 0>>, <<"d", 0>>}
           \cup {SourcePath(n) : n \in 0..MaxGroups} |->
        IF p = <<"a", 0>> THEN MakeFile("a", SchemaA, <<100, 50>>)
        ELSE IF p = <<"b", 0>> THEN MakeFile("b", SchemaA, <<70>>)
        ELSE IF p = <<"c", 0>> THEN MakeFile("c", SchemaB, <<30>>)
        ELSE IF p = <<"d", 0>> THEN MakeFile("d", SchemaC, <<20>>)
        ELSE MakeFile("src", SchemaA, [k \in 1..p[2] |-> 10 * k])]

\* paths named on merge's command line; "missing" does not exist
MergeInputPaths == {<<"a", 0>>, <<"b", 0>>, <<"c", 0>>, <<"d", 0>>,
                    <<"missing", 0>>}
MergeOutput == <<"out", 0>>
SplitPrefix == "part"
SplitGroupsValues == 0..3

\* File::open and parse_metadata succeed on an existing, closed container
Readable(f, p) == p \in DOMAIN f /\ f[p].closed

\* the file system f with the container c at path p
Put(f, p, c) == [q \in DOMAIN f \cup {p} |-> IF q = p THEN c ELSE f[q]]

\* the bytes a reader finds in the range [off, off + len) of container c
ReadRange(c, off, len) ==
    IF \E k \in 1..Len(c.extents) :
           c.extents[k].offset = off /\ c.extents[k].len = len
    THEN LET k == CHOOSE k \in 1..Len(c.extents) :
                      c.extents[k].offset = off /\ c.extents[k].len = len
         IN c.extents[k].bytes
    ELSE <<"garbage", off, len>>

\* a ColumnCloseResult that reports the uncompressed size and the chunk's
\* value count
CloseResultUncompressed(rg, column) ==
    [bytes_written |-> column.uncompressed_size,
     rows_written |-> column.num_values + 1,
     metadata |-> [column EXCEPT !.compressed_size = column.uncompressed_size]]

\* the ColumnCloseResult that merge_main and split_main build for a column
\* chunk of the row group rg
CloseResult(rg, column) ==
    [bytes_written |-> column.compressed_size,
     rows_written |-> rg.num_rows,
     metadata |-> column]

\* SerializedRowGroupWriter::append_column for the columns c.. of rg: the
\* byte range named by the metadata is copied from src to position pos and
\* the metadata is kept but for the offset; the result is
\* <<chunk metadata, extents, next position, rows_written of each column>>
RECURSIVE AppendColumns(_, _, _, _)
AppendColumns(src, rg, c, pos) ==
    IF c > Len(rg.columns) THEN <<<<>>, <<>>, pos, <<>>>>
    ELSE LET close == CloseResult(rg, rg.columns[c])
             m == close.metadata
             rest == AppendColumns(src, rg, c + 1, pos + m.compressed_size)
             ext == [offset |-> pos, len |-> m.compressed_size,
                     bytes |-> ReadRange(src, m.offset, m.compressed_size)]
         IN <<<<[m EXCEPT !.offset = pos]>> \o rest[1],
              <<ext>> \o rest[2], rest[3],
              <<close.rows_written>> \o rest[4]>>

\* a writer that lists the row group it finished before the earlier ones
TransplantRowGroupFront(dst, src, rg, pos) ==
    LET a == AppendColumns(src, rg, 1, pos)
        rows == IF a[4] = <<>> THEN 0 ELSE a[4][1]
    IN [dst EXCEPT !.row_groups = <<[num_rows |-> rows,
                                     columns |-> a[1]]>> \o @,
                   !.extents = @ \o a[2]]

\* next_row_group, append_column for every column and rg_out.close(): the
\* container dst with the row group rg of src transplanted to position pos;
\* the row group's row count is the rows_written of its first column
TransplantRowGroup(dst, src, rg, pos) ==
    LET a == AppendColumns(src, rg, 1, pos)
        rows == IF a[4] = <<>> THEN 0 ELSE a[4][1]
    IN [dst EXCEPT !.row_groups = Append(@, [num_rows |-> rows,
                                             columns |-> a[1]]),
                   !.extents = @ \o a[2]]

\* the position after the last byte of a container's data section
EndOfData(c) ==
    IF c.extents = <<>> THEN MagicLen
    ELSE c.extents[Len(c.extents)].offset + c.extents[Len(c.extents)].len

\* a range `0..=n`
InRangeInclusive(i, n) == i <= n

\* the for loop over `0..n` has an iteration i
InRange(i, n) == i < n

\* an iterator that yields the row groups from the back
IterNextBack(groups, pos) == groups[Len(groups) - pos]

\* `rg_iter.next()` after pos elements were taken
IterNext(groups, pos) == groups[pos + 1]

\* the width of the index in the name of a split output
NameWidth == 4

\* an output name that leaves out the index
OutputNameShared(prefix, idx) == <<prefix, PadZero(Digits(0), NameWidth)>>

\* `format!("{}_{:04}.parquet", args.output, output_idx)`
OutputName(prefix, idx) == <<prefix, PadZero(Digits(idx), NameWidth)>>

NoWriter == [path |-> NoPath, pos |-> 0]

\* no split came before the command that runs
NoOrigin == [input |-> NoPath, groups |-> 0]

\* no merge and no split is running
TransplantIdle ==
    /\ cmd = "none"
    /\ targs = <<>>
    /\ fs = <<>>
    /\ tpc = "none"
    /\ result = "none"
    /\ writer = NoWriter
    /\ inputs = <<>>
    /\ cur = <<0, 0>>
    /\ output_idx = 0
    /\ left = 0
    /\ rg_pos = 0
    /\ in_file = 0
    /\ origin = NoOrigin

(***************************************************************************)
(* Init: a command line and a source file                                  *)
(***************************************************************************)

Init ==
    /\ args \in [prefix : BOOLEAN,
                 max_row_group_count : GroupsValues,
                 max_row_group_size : SizeValues,
                 jobs : JobsValues]
    /\ total_rows \in RowsValues \cup LargeRows
    /\ total_rows \in LargeRows =>
           /\ args.max_row_group_count \in LargeGroups
           /\ args.max_row_group_size \in LargeSizes
    /\ mainPc = "start"
    /\ exitCode = -1
    /\ reported = {}
    /\ row_limit_per_file = 0
    /\ total_tasks = 0
    /\ queue = <<>>
    /\ credits = 0
    /\ readerPc = "unborn"
    /\ readPos = 0
    /\ doneSent = 0
    /\ decodeFailed = FALSE
    /\ sent = <<>>
    /\ spawned = 0
    /\ joined = 0
    /\ worker = <<>>
    /\ file = <<>>
    /\ dequeued = <<>>
    /\ endedBy = <<>>
    /\ closes = <<>>
    /\ writeFailed = {}
    /\ created = {}
    /\ faults = 0
    /\ previous = NoRun
    /\ TransplantIdle

(***************************************************************************)
(* Main thread                                                             *)
(***************************************************************************)

\* main.rs 106-116: without a prefix the command only dumps the metadata;
\* a size of 0 logs an error and returns from main
MainCheckArgs ==
    /\ mainPc = "start"
    /\ IF ~args.prefix
       THEN /\ mainPc' = "dumped"
            /\ exitCode' = 0
            /\ reported' = reported
       ELSE IF args.max_row_group_size = 0
       THEN /\ mainPc' = "rejected"
            /\ exitCode' = 0
            /\ reported' = reported \cup
                 {"please set a value bigger than 0 for max_row_group_size"}
       ELSE /\ mainPc' = "compute"
            /\ exitCode' = exitCode
            /\ reported' = reported
    /\ UNCHANGED <<row_limit_per_file, total_tasks, spawned, joined>>
    /\ UNCHANGED <<inputVars, tpVars, queue, credits, readerVars, workerVars>>

\* main.rs 131-142: row_limit_per_file and total_tasks; a multiplication
\* that overflows panics in a build with overflow checks and wraps in a
\* build without them
MainCompute ==
    /\ mainPc = "compute"
    /\ \/ /\ MulOverflows32(args.max_row_group_count, args.max_row_group_size)
          /\ mainPc' = "panicked"
          /\ exitCode' = PanicExit
          /\ reported' = reported \cup {"attempt to multiply with overflow"}
          /\ UNCHANGED <<row_limit_per_file, total_tasks>>
       \/ /\ mainPc' = "setup"
            /\ row_limit_per_file' = WrappingMul32(args.max_row_group_count,
                                                   args.max_row_group_size)
            /\ total_tasks' = TotalTasks(total_rows, row_limit_per_file',
                                         args.jobs)
            /\ UNCHANGED <<exitCode, reported>>
    /\ UNCHANGED <<spawned, joined>>
    /\ UNCHANGED <<inputVars, tpVars, queue, credits, readerVars, workerVars>>

\* main.rs 145-173: the channels, the credit pool and the reader thread
MainSetup ==
    /\ mainPc = "setup"
    /\ mainPc' = "run"
    /\ queue' = <<>>
    /\ credits' = InitialCredits(args.jobs)
    /\ readerPc' = "reading"
    /\ worker' = [i \in 0..(total_tasks - 1) |-> "unborn"]
    /\ file' = [i \in 0..(total_tasks - 1) |-> ExistingContent(i)]
    /\ dequeued' = [i \in 0..(total_tasks - 1) |-> <<>>]
    /\ endedBy' = [i \in 0..(total_tasks - 1) |-> "none"]
    /\ closes' = [i \in 0..(total_tasks - 1) |-> 0]
    /\ UNCHANGED <<exitCode, reported, row_limit_per_file, total_tasks,
                   spawned, joined>>
    /\ UNCHANGED <<inputVars, tpVars, readPos, doneSent, decodeFailed, sent,
                   writeFailed, created, faults>>

\* main.rs 179-216: one iteration of the spawn loop; thread_rx.recv() blocks
\* while the pool is empty
MainSpawn ==
    /\ mainPc = "run"
    /\ spawned < total_tasks
    /\ credits > 0
    /\ credits' = TakeCredit(credits)
    /\ worker' = [worker EXCEPT ![spawned] = "spawned"]
    /\ spawned' = spawned + 1
    /\ UNCHANGED <<mainPc, exitCode, reported, row_limit_per_file,
                   total_tasks, joined>>
    /\ UNCHANGED <<inputVars, tpVars, queue, readerVars, file, dequeued, endedBy,
                   closes, writeFailed, created, faults>>

\* main.rs 218-220: threads.pop() yields the last spawned thread first;
\* join() blocks until it ended and unwrap() panics if it panicked
MainJoin ==
    /\ mainPc = "run"
    /\ spawned = total_tasks
    /\ joined < total_tasks
    /\ LET i == total_tasks - 1 - joined IN
       \/ /\ worker[i] = "finished"
          /\ joined' = joined + 1
          /\ UNCHANGED <<mainPc, exitCode, reported>>
       \/ /\ worker[i] = "panicked"
          /\ joined' = joined + 1
          /\ mainPc' = "panicked"
          /\ exitCode' = PanicExit
          /\ reported' = reported \cup {"worker thread panicked"}
    /\ UNCHANGED <<row_limit_per_file, total_tasks, spawned>>
    /\ UNCHANGED <<inputVars, tpVars, queue, credits, readerVars, workerVars>>

\* main.rs 221: main returns once every thread was joined
MainReturn ==
    /\ mainPc = "run"
    /\ spawned = total_tasks
    /\ joined = total_tasks
    /\ mainPc' = "returned"
    /\ exitCode' = 0
    /\ UNCHANGED <<reported, row_limit_per_file, total_tasks, spawned, joined>>
    /\ UNCHANGED <<inputVars, tpVars, queue, credits, readerVars, workerVars>>

(***************************************************************************)
(* Reader thread (main.rs 157-173)                                         *)
(***************************************************************************)

\* reader.next() yields Some(Ok(batch)) and the batch is sent
ReaderSend ==
    /\ Running
    /\ readerPc = "reading"
    /\ readPos < NumBatches(total_rows)
    /\ HasRoom(queue)
    /\ readPos' = readPos + 1
    /\ queue' = Append(queue, CONTENT(readPos'))
    /\ sent' = Append(sent, CONTENT(readPos'))
    /\ UNCHANGED <<readerPc, doneSent, decodeFailed>>
    /\ UNCHANGED <<inputVars, tpVars, mainVars, credits, workerVars>>

\* reader.next() yields Some(Err(_)): break
ReaderDecodeError ==
    /\ Running
    /\ readerPc = "reading"
    /\ readPos < NumBatches(total_rows)
    /\ decodeFailed' = TRUE
    /\ readerPc' = "done_loop"
    /\ UNCHANGED <<readPos, doneSent, sent>>
    /\ UNCHANGED <<inputVars, tpVars, mainVars, queue, credits, workerVars>>

\* reader.next() yields None
ReaderExhausted ==
    /\ Running
    /\ readerPc = "reading"
    /\ readPos = NumBatches(total_rows)
    /\ readerPc' = "done_loop"
    /\ UNCHANGED <<readPos, doneSent, decodeFailed, sent>>
    /\ UNCHANGED <<inputVars, tpVars, mainVars, queue, credits, workerVars>>

\* one iteration of `for _i in 0..total_tasks { tx.send(Message::DONE) }`
ReaderSendDone ==
    /\ Running
    /\ readerPc = "done_loop"
    /\ doneSent < DoneSignals(total_tasks)
    /\ HasRoom(queue)
    /\ doneSent' = doneSent + 1
    /\ queue' = Append(queue, DONE)
    /\ sent' = Append(sent, DONE)
    /\ UNCHANGED <<readerPc, readPos, decodeFailed>>
    /\ UNCHANGED <<inputVars, tpVars, mainVars, credits, workerVars>>

\* the reader's closure returns
ReaderExit ==
    /\ Running
    /\ readerPc = "done_loop"
    /\ doneSent >= DoneSignals(total_tasks)
    /\ readerPc' = "exited"
    /\ UNCHANGED <<readPos, doneSent, decodeFailed, sent>>
    /\ UNCHANGED <<inputVars, tpVars, mainVars, queue, credits, workerVars>>

Reader == \/ ReaderSend
          \/ ReaderDecodeError
          \/ ReaderExhausted
          \/ ReaderSendDone
          \/ ReaderExit

(***************************************************************************)
(* Worker threads (main.rs 186-214)                                        *)
(***************************************************************************)

\* build_parquet_file_writer2(..).unwrap(): File::create and the writer
WorkerOpen(i) ==
    /\ Running
    /\ worker[i] = "spawned"
    /\ \/ /\ worker' = [worker EXCEPT ![i] = "open"]
          /\ created' = created \cup {<<OutfileName(i), i>>}
          /\ file' = [file EXCEPT ![i] = Truncated(@)]
          /\ UNCHANGED faults
       \/ /\ faults < MaxFaults
          /\ faults' = faults + 1
          /\ worker' = [worker EXCEPT ![i] = "panicked"]
          /\ UNCHANGED <<created, file>>
    /\ UNCHANGED <<dequeued, endedBy, closes, writeFailed>>
    /\ UNCHANGED <<inputVars, tpVars, mainVars, queue, credits, readerVars>>

\* recv_timeout returns Ok(CONTENT(data)); the result of write is dropped
WorkerContent(i) ==
    /\ Running
    /\ worker[i] = "open"
    /\ queue # <<>>
    /\ Head(queue).tag = "CONTENT"
    /\ queue' = Tail(queue)
    /\ dequeued' = [dequeued EXCEPT ![i] = Append(@, Head(queue))]
    /\ \/ /\ file' = [file EXCEPT ![i] = WriteBatch(@, Head(queue).data)]
          /\ UNCHANGED <<writeFailed, faults>>
       \/ /\ faults < MaxFaults
          /\ faults' = faults + 1
          /\ writeFailed' = writeFailed \cup {<<i, Head(queue).data>>}
          /\ UNCHANGED file
    /\ UNCHANGED <<worker, endedBy, closes, created>>
    /\ UNCHANGED <<inputVars, tpVars, mainVars, credits, readerVars>>

\* recv_timeout returns Ok(DONE): break
WorkerDone(i) ==
    /\ Running
    /\ worker[i] = "open"
    /\ queue # <<>>
    /\ Head(queue).tag = "DONE"
    /\ queue' = Tail(queue)
    /\ dequeued' = [dequeued EXCEPT ![i] = Append(@, Head(queue))]
    /\ worker' = [worker EXCEPT ![i] = "closing"]
    /\ endedBy' = [endedBy EXCEPT ![i] = "done"]
    /\ UNCHANGED <<file, closes, writeFailed, created, faults>>
    /\ UNCHANGED <<inputVars, tpVars, mainVars, credits, readerVars>>

\* recv_timeout returns Err(_) after 10 seconds without a message: break
WorkerTimeout(i) ==
    /\ Running
    /\ worker[i] = "open"
    /\ queue = <<>>
    /\ worker' = [worker EXCEPT ![i] = "closing"]
    /\ endedBy' = [endedBy EXCEPT ![i] = "timeout"]
    /\ UNCHANGED <<file, dequeued, closes, writeFailed, created, faults>>
    /\ UNCHANGED <<inputVars, tpVars, mainVars, queue, credits, readerVars>>

\* flush, close().unwrap() and the return of the credit
WorkerClose(i) ==
    /\ Running
    /\ worker[i] = "closing"
    /\ \/ /\ worker' = [worker EXCEPT ![i] = "finished"]
          /\ closes' = [closes EXCEPT ![i] = @ + 1]
          /\ credits' = credits + 1
          /\ UNCHANGED faults
       \/ /\ faults < MaxFaults
          /\ faults' = faults + 1
          /\ worker' = [worker EXCEPT ![i] = "panicked"]
          /\ UNCHANGED <<closes, credits>>
    /\ UNCHANGED <<file, dequeued, endedBy, writeFailed, created>>
    /\ UNCHANGED <<inputVars, tpVars, mainVars, queue, readerVars>>

WorkerStep(i) == \/ WorkerOpen(i)
                 \/ WorkerContent(i)
                 \/ WorkerDone(i)
                 \/ WorkerTimeout(i)
                 \/ WorkerClose(i)

Main == \/ MainCheckArgs
        \/ MainCompute
        \/ MainSetup
        \/ MainSpawn
        \/ MainJoin
        \/ MainReturn

Next == \/ Main
        \/ Reader
        \/ \E i \in Workers : WorkerStep(i)

Spec == Init /\ [][Next]_vars

\* every thread of a live process is eventually scheduled; a receive that
\* finds the queue empty for 10 seconds times out
FairWorker(i) == i \in Workers /\ WorkerStep(i)

FairSpec == /\ Spec
            /\ WF_vars(Main)
            /\ WF_vars(Reader)
            /\ \A i \in WorkerIds : WF_vars(FairWorker(i))

(***************************************************************************)
(* The same repartition command run a second time                          *)
(***************************************************************************)

\* rows of the sources that are repartitioned twice
RerunRows == {9999, 20000}

RerunInit == Init /\ args.prefix /\ total_rows \in RerunRows

\* main.rs 101-103: after the command returned without an I/O fault and
\* without a decode error, it is started again with the same arguments on
\* the same source; the output files of the first run are still there
Rerun ==
    /\ mainPc = "returned"
    /\ ~previous.ran
    /\ faults = 0
    /\ ~decodeFailed
    /\ previous' = [ran |-> TRUE, outputs |-> file, endedBy |-> endedBy]
    /\ mainPc' = "start"
    /\ exitCode' = -1
    /\ reported' = {}
    /\ row_limit_per_file' = 0
    /\ total_tasks' = 0
    /\ queue' = <<>>
    /\ credits' = 0
    /\ readerPc' = "unborn"
    /\ readPos' = 0
    /\ doneSent' = 0
    /\ decodeFailed' = FALSE
    /\ sent' = <<>>
    /\ spawned' = 0
    /\ joined' = 0
    /\ worker' = <<>>
    /\ file' = <<>>
    /\ dequeued' = <<>>
    /\ endedBy' = <<>>
    /\ closes' = <<>>
    /\ writeFailed' = {}
    /\ created' = {}
    /\ UNCHANGED <<args, total_rows, faults, tpVars>>

RerunNext == Next \/ Rerun

RerunSpec == RerunInit /\ [][RerunNext]_vars

(***************************************************************************)
(* merge_main and split_main                                               *)
(***************************************************************************)

\* the repartition command is not running
RepartitionIdle ==
    /\ args = [prefix |-> FALSE, max_row_group_count |-> 0,
               max_row_group_size |-> 0, jobs |-> 0]
    /\ total_rows = 0
    /\ mainPc = "none"
    /\ exitCode = -1
    /\ reported = {}
    /\ row_limit_per_file = 0
    /\ total_tasks = 0
    /\ queue = <<>>
    /\ credits = 0
    /\ readerPc = "unborn"
    /\ readPos = 0
    /\ doneSent = 0
    /\ decodeFailed = FALSE
    /\ sent = <<>>
    /\ spawned = 0
    /\ joined = 0
    /\ worker = <<>>
    /\ file = <<>>
    /\ dequeued = <<>>
    /\ endedBy = <<>>
    /\ closes = <<>>
    /\ writeFailed = {}
    /\ created = {}
    /\ previous = NoRun

\* the sequences of at most n elements of S
SeqsUpTo(S, n) == UNION {[1..k -> S] : k \in 0..n}

\* a merge or a split command line over the initial file system
TransplantInit ==
    /\ RepartitionIdle
    /\ faults = 0
    /\ cmd \in {"merge", "split"}
    /\ IF cmd = "merge"
       THEN targs \in [output : {MergeOutput},
                       input : SeqsUpTo(MergeInputPaths, MaxInputs)]
       ELSE targs \in [output : {SplitPrefix},
                       groups : SplitGroupsValues,
                       input : {SourcePath(n) : n \in 0..MaxGroups}
                                   \cup {NoPath, <<"missing", 0>>}]
    /\ fs = InitialFiles
    /\ tpc = "start"
    /\ result = "none"
    /\ writer = NoWriter
    /\ inputs = <<>>
    /\ cur = <<0, 0>>
    /\ output_idx = 0
    /\ left = 0
    /\ rg_pos = 0
    /\ in_file = 0
    /\ origin = NoOrigin

\* the values of eyre::Result<()> and a panic
Ok == "Ok"
ErrNoInput == "Err: must provide input"
ErrSchema == "Err: inputs must have the same schema"
ErrIo == "Err: io"
ErrIoClose == "Err: io on close"
Panic == "panic"

\* the function returns r; the writer in scope is dropped
Return(r) ==
    /\ tpc' = "returned"
    /\ result' = r
    /\ writer' = NoWriter

\* an I/O call returns the error e and `?` returns it from the function
IoFails(e) ==
    /\ faults < MaxFaults
    /\ faults' = faults + 1
    /\ Return(e)

\* merge.rs 41-47: the input check and File::create(&args.output)
MergeCreate ==
    /\ cmd = "merge"
    /\ tpc = "start"
    /\ IF targs.input = <<>>
       THEN /\ Return(ErrNoInput)
            /\ UNCHANGED <<fs, faults>>
       ELSE \/ /\ fs' = Put(fs, targs.output, EmptyFile)
               /\ tpc' = "open_inputs"
               /\ UNCHANGED <<result, writer, faults>>
            \/ /\ IoFails(ErrIo)
               /\ UNCHANGED fs
    /\ UNCHANGED <<cmd, targs, inputs, cur, output_idx, left, rg_pos,
                   in_file, origin>>
    /\ UNCHANGED repVars

\* merge.rs 49-57: every input is opened and its footer parsed; unwrap
\* panics on the first that cannot be
MergeOpenInputs ==
    /\ cmd = "merge"
    /\ tpc = "open_inputs"
    /\ IF \A k \in 1..Len(targs.input) : Readable(fs, targs.input[k])
       THEN /\ inputs' = [k \in 1..Len(targs.input) |->
                             [path |-> targs.input[k],
                              metadata |-> fs[targs.input[k]]]]
            /\ tpc' = "check"
            /\ UNCHANGED <<result, writer>>
       ELSE /\ Return(Panic)
            /\ UNCHANGED inputs
    /\ UNCHANGED <<cmd, targs, fs, cur, output_idx, left, rg_pos, in_file,
                   origin, faults>>
    /\ UNCHANGED repVars

\* merge.rs 59-67: the schema of every further input against the first
MergeCheckSchema ==
    /\ cmd = "merge"
    /\ tpc = "check"
    /\ IF \E k \in 2..Len(inputs) :
              inputs[k].metadata.schema # inputs[1].metadata.schema
       THEN Return(ErrSchema)
       ELSE /\ tpc' = "new_writer"
            /\ UNCHANGED <<result, writer>>
    /\ UNCHANGED <<cmd, targs, fs, inputs, cur, output_idx, left, rg_pos,
                   in_file, origin, faults>>
    /\ UNCHANGED repVars

\* merge.rs 69-71: SerializedFileWriter::new with the first input's schema
MergeNewWriter ==
    /\ cmd = "merge"
    /\ tpc = "new_writer"
    /\ \/ /\ writer' = [path |-> targs.output, pos |-> MagicLen]
          /\ fs' = Put(fs, targs.output,
                       NewContainer(inputs[1].metadata.schema))
          /\ cur' = <<1, 1>>
          /\ tpc' = "loop"
          /\ UNCHANGED <<result, faults>>
       \/ /\ IoFails(ErrIo)
          /\ UNCHANGED <<fs, cur>>
    /\ UNCHANGED <<cmd, targs, inputs, output_idx, left, rg_pos, in_file,
                   origin>>
    /\ UNCHANGED repVars

\* merge.rs 74-88: one iteration of `for rg in metadata.row_groups()`
MergeRowGroup ==
    /\ cmd = "merge"
    /\ tpc = "loop"
    /\ cur[1] <= Len(inputs)
    /\ cur[2] <= Len(inputs[cur[1]].metadata.row_groups)
    /\ \/ /\ LET input == inputs[cur[1]]
                 rg == input.metadata.row_groups[cur[2]]
                 out == TransplantRowGroup(fs[writer.path], fs[input.path],
                                           rg, writer.pos)
             IN /\ fs' = Put(fs, writer.path, out)
                /\ writer' = [writer EXCEPT !.pos = EndOfData(out)]
          /\ cur' = <<cur[1], cur[2] + 1>>
          /\ UNCHANGED <<tpc, result, faults>>
       \/ /\ IoFails(ErrIo)
          /\ UNCHANGED <<fs, cur>>
    /\ UNCHANGED <<cmd, targs, inputs, output_idx, left, rg_pos, in_file,
                   origin>>
    /\ UNCHANGED repVars

\* merge.rs 73-74: the row groups of one input are exhausted and
\* `for (input, metadata) in inputs` moves on
MergeNextInput ==
    /\ cmd = "merge"
    /\ tpc = "loop"
    /\ cur[1] <= Len(inputs)
    /\ cur[2] > Len(inputs[cur[1]].metadata.row_groups)
    /\ cur' = <<cur[1] + 1, 1>>
    /\ UNCHANGED <<cmd, targs, fs, tpc, result, writer, inputs, output_idx,
                   left, rg_pos, in_file, origin, faults>>
    /\ UNCHANGED repVars

\* merge.rs 91-93: writer.close() writes the footer
MergeClose ==
    /\ cmd = "merge"
    /\ tpc = "loop"
    /\ cur[1] > Len(inputs)
    /\ \/ /\ fs' = Put(fs, writer.path, [fs[writer.path] EXCEPT !.closed = TRUE])
          /\ Return(Ok)
          /\ UNCHANGED faults
       \/ /\ IoFails(ErrIoClose)
          /\ UNCHANGED fs
    /\ UNCHANGED <<cmd, targs, inputs, cur, output_idx, left, rg_pos, in_file,
                   origin>>
    /\ UNCHANGED repVars

Merge == \/ MergeCreate
         \/ MergeOpenInputs
         \/ MergeCheckSchema
         \/ MergeNewWriter
         \/ MergeRowGroup
         \/ MergeNextInput
         \/ MergeClose

\* split.rs 46-60: the input check, the footer and the loop variables
SplitOpen ==
    /\ cmd = "split"
    /\ tpc = "start"
    /\ IF targs.input = NoPath
       THEN /\ Return(ErrNoInput)
            /\ UNCHANGED <<inputs, output_idx, left, rg_pos>>
       ELSE IF ~Readable(fs, targs.input)
       THEN /\ Return(Panic)
            /\ UNCHANGED <<inputs, output_idx, left, rg_pos>>
       ELSE /\ inputs' = <<[path |-> targs.input, metadata |-> fs[targs.input]]>>
            /\ output_idx' = 0
            /\ left' = Len(fs[targs.input].row_groups)
            /\ rg_pos' = 0
            /\ tpc' = "while"
            /\ UNCHANGED <<result, writer>>
    /\ UNCHANGED <<cmd, targs, fs, cur, in_file, origin, faults>>
    /\ UNCHANGED repVars

\* split.rs 62-67: `while left > 0` is entered, the next output is created
\* and its writer built
SplitCreate ==
    /\ cmd = "split"
    /\ tpc = "while"
    /\ left > 0
    /\ output_idx < MaxOutputs
    /\ output_idx' = output_idx + 1
    /\ \/ /\ LET output == OutputName(targs.output, output_idx)
             IN /\ fs' = Put(fs, output,
                             NewContainer(inputs[1].metadata.schema))
                /\ writer' = [path |-> output, pos |-> MagicLen]
          /\ in_file' = 0
          /\ tpc' = "for"
          /\ UNCHANGED <<result, faults>>
       \/ /\ IoFails(ErrIo)
          /\ UNCHANGED <<fs, in_file>>
    /\ UNCHANGED <<cmd, targs, inputs, cur, left, rg_pos, origin>>
    /\ UNCHANGED repVars

\* split.rs 69-86: an iteration of `for _ in 0..args.groups` in which
\* rg_iter.next() is Some(rg)
SplitRowGroup ==
    /\ cmd = "split"
    /\ tpc = "for"
    /\ InRange(in_file, targs.groups)
    /\ rg_pos < Len(inputs[1].metadata.row_groups)
    /\ left' = left - 1
    /\ rg_pos' = rg_pos + 1
    /\ \/ /\ LET rg == IterNext(inputs[1].metadata.row_groups, rg_pos)
                 out == TransplantRowGroup(fs[writer.path], fs[inputs[1].path],
                                           rg, writer.pos)
             IN /\ fs' = Put(fs, writer.path, out)
                /\ writer' = [writer EXCEPT !.pos = EndOfData(out)]
          /\ in_file' = in_file + 1
          /\ UNCHANGED <<tpc, result, faults>>
       \/ /\ IoFails(ErrIo)
          /\ UNCHANGED <<fs, in_file>>
    /\ UNCHANGED <<cmd, targs, inputs, cur, output_idx, origin>>
    /\ UNCHANGED repVars

\* split.rs 69-92: the for loop ends, by its range or by the break on
\* None, and writer.close() writes the footer
SplitCloseFile ==
    /\ cmd = "split"
    /\ tpc = "for"
    /\ \/ ~InRange(in_file, targs.groups)
       \/ rg_pos >= Len(inputs[1].metadata.row_groups)
    /\ \/ /\ fs' = Put(fs, writer.path, [fs[writer.path] EXCEPT !.closed = TRUE])
          /\ writer' = NoWriter
          /\ tpc' = "while"
          /\ UNCHANGED <<result, faults>>
       \/ /\ IoFails(ErrIoClose)
          /\ UNCHANGED fs
    /\ UNCHANGED <<cmd, targs, inputs, cur, output_idx, left, rg_pos, in_file,
                   origin>>
    /\ UNCHANGED repVars

\* split.rs 62, 95: `while left > 0` ends and Ok(()) is returned
SplitReturn ==
    /\ cmd = "split"
    /\ tpc = "while"
    /\ left = 0
    /\ Return(Ok)
    /\ UNCHANGED <<cmd, targs, fs, inputs, cur, output_idx, left, rg_pos,
                   in_file, origin, faults>>
    /\ UNCHANGED repVars

Split == \/ SplitOpen
         \/ SplitCreate
         \/ SplitRowGroup
         \/ SplitCloseFile
         \/ SplitReturn

\* after a split that returned Ok, merge is run on the files the split
\* created, in index order
MergeParts ==
    /\ cmd = "split"
    /\ tpc = "returned"
    /\ result = Ok
    /\ cmd' = "merge"
    /\ targs' = [output |-> MergeOutput,
                 input |-> [k \in 1..output_idx |->
                               OutputName(targs.output, k - 1)]]
    /\ origin' = [input |-> targs.input, groups |-> targs.groups]
    /\ tpc' = "start"
    /\ result' = "none"
    /\ inputs' = <<>>
    /\ UNCHANGED <<fs, writer, cur, output_idx, left, rg_pos, in_file, faults>>
    /\ UNCHANGED repVars

TransplantNext == \/ Merge
                  \/ Split
                  \/ MergeParts

TransplantSpec == TransplantInit /\ [][TransplantNext]_vars

(***************************************************************************)
(* Properties                                                              *)
(***************************************************************************)

RECURSIVE RowsInFiles(_)
RowsInFiles(n) == IF n = 0 THEN 0
                  ELSE SumRows(total_rows, file[n - 1]) + RowsInFiles(n - 1)

\* the rows held by all output files together
TotalOutputRows == RowsInFiles(Cardinality(Workers))

\* the number of DONE signals in a sequence of messages
DoneCount(s) == Cardinality({k \in 1..Len(s) : s[k].tag = "DONE"})

\* the number of data batches in a sequence of messages
ContentCount(s) == Cardinality({k \in 1..Len(s) : s[k].tag = "CONTENT"})

\* the process has ended, main having returned or panicked
Ended == exitCode # -1

\* C1: when the repartition finishes, the row counts of the output files
\* add up to the source's row count
RepartitionConservation ==
    mainPc = "returned" => TotalOutputRows = total_rows

\* C2: with more output files than jobs every worker is eventually started,
\* receives exactly one DONE and closes its writer exactly once
TerminationCorrectness ==
    (mainPc = "run" /\ total_tasks > args.jobs)
        ~> (\A i \in Workers : /\ worker[i] = "finished"
                                 /\ DoneCount(dequeued[i]) = 1
                                 /\ closes[i] = 1)

\* workers that were started and have not yet closed their output
StartedNotClosed ==
    {i \in Workers : worker[i] \in {"spawned", "open", "closing"}}

\* C3: at most `jobs` workers are started and not yet closed, and a worker
\* receives from the queue only after a credit was taken for it
AdmissionControl ==
    /\ Cardinality(StartedNotClosed) <= args.jobs
    /\ \A i \in Workers : worker[i] # "unborn" => i < spawned
    /\ \A i \in Workers : worker[i] = "unborn" => dequeued[i] = <<>>
    /\ mainPc = "run" => credits + spawned <=
                            args.jobs + Cardinality({i \in Workers :
                                                      worker[i] = "finished"})

AdmissionControlWitness ==
    /\ total_tasks > args.jobs
    /\ spawned < total_tasks
    /\ Cardinality(OpenWorkers) = 2
    /\ \A i \in OpenWorkers : dequeued[i] # <<>>

\* the number of output files of the specification for R rows, a limit of
\* S rows per file and J jobs
CeilDiv(a, b) == (a + b - 1) \div b

SpecifiedTasks(R, S, J) ==
    IF S > 0
    THEN IF CeilDiv(R, S) < 1 THEN 1 ELSE CeilDiv(R, S)
    ELSE IF R < batch_size THEN 1 ELSE J

\* C4: the number of output files equals ceil(R / S) with a minimum of 1
\* under a limit S, and otherwise 1 below one batch and J from one batch on
OutputCount ==
    mainPc \in {"setup", "run", "returned"} =>
        total_tasks = SpecifiedTasks(total_rows, row_limit_per_file, args.jobs)

\* C5: the reader enqueues the batches in source order, then exactly
\* total_tasks DONE signals, and never a batch after a DONE
SignalProtocol ==
    /\ \A k \in 1..Len(sent) :
           IF k <= readPos THEN sent[k] = CONTENT(k) ELSE sent[k] = DONE
    /\ Len(sent) = readPos + doneSent
    /\ doneSent <= total_tasks
    /\ readerPc = "exited" => DoneCount(sent) = total_tasks
    /\ (doneSent > 0 /\ ~decodeFailed) => readPos = NumBatches(total_rows)

SignalProtocolWitness ==
    /\ readerPc = "exited"
    /\ ~decodeFailed
    /\ ContentCount(sent) >= 2
    /\ DoneCount(sent) >= 2

\* C6: the shared queue never holds more than 16 messages, and an enqueue
\* completes only from a state in which the queue is not full
BoundedQueue ==
    /\ [](Len(queue) <= 16)
    /\ [][Len(queue') > Len(queue) => Len(queue) < 16]_vars

BoundedQueueWitness ==
    /\ Len(queue) = 16
    /\ readerPc = "reading"
    /\ readPos < NumBatches(total_rows)
    /\ \E i \in Workers : worker[i] = "open"

\* C7: a run in which a worker's receive timed out reports the stall
TimeoutReported ==
    (Ended /\ \E i \in Workers : endedBy[i] = "timeout")
        => (exitCode # 0 \/ reported # {})

\* C8: a decode failure ends the batch sequence and is reported as an error
DecodeFailureSurfaced ==
    /\ decodeFailed => ContentCount(sent) = readPos
    /\ (Ended /\ decodeFailed) => (exitCode # 0 \/ reported # {})

\* C9: a run in which a write of a dequeued batch failed does not end in
\* success
WriteFailureSurfaced ==
    (Ended /\ writeFailed # {}) => exitCode # 0

\* C10: a size of 0 is rejected with an error exit before any thread is
\* started and any output file is created
InvalidSizeRejected ==
    (Ended /\ args.prefix /\ args.max_row_group_size = 0)
        => /\ exitCode # 0
           /\ readerPc = "unborn"
           /\ Workers = {}

(***************************************************************************)
(* Properties of merge and split                                           *)
(***************************************************************************)

\* what a reader decodes from a column chunk: its metadata, whatever its
\* offset, and the bytes the metadata points at
LogicalColumn(c, m) ==
    [meta |-> [m EXCEPT !.offset = 0],
     bytes |-> ReadRange(c, m.offset, m.compressed_size)]

LogicalGroup(c, rg) ==
    [num_rows |-> rg.num_rows,
     columns |-> [k \in 1..Len(rg.columns) |-> LogicalColumn(c, rg.columns[k])]]

\* the logical row-group sequence of a container
LogicalGroups(c) ==
    [k \in 1..Len(c.row_groups) |-> LogicalGroup(c, c.row_groups[k])]

\* the logical row groups of the files paths[k..], concatenated
RECURSIVE ConcatLogical(_, _)
ConcatLogical(paths, k) ==
    IF k > Len(paths) THEN <<>>
    ELSE LogicalGroups(fs[paths[k]]) \o ConcatLogical(paths, k + 1)

RECURSIVE SumNumRows(_)
SumNumRows(groups) ==
    IF groups = <<>> THEN 0
    ELSE Head(groups).num_rows + SumNumRows(Tail(groups))

RECURSIVE SumRowsOfFiles(_, _)
SumRowsOfFiles(paths, k) ==
    IF k > Len(paths) THEN 0
    ELSE SumNumRows(fs[paths[k]].row_groups) + SumRowsOfFiles(paths, k + 1)

RECURSIVE SumGroupsOfFiles(_, _)
SumGroupsOfFiles(paths, k) ==
    IF k > Len(paths) THEN 0
    ELSE Len(fs[paths[k]].row_groups) + SumGroupsOfFiles(paths, k + 1)

\* the inputs of the merge that runs all exist and do not all have the
\* schema of the first
SchemasDiffer ==
    /\ targs.input # <<>>
    /\ \A k \in 1..Len(targs.input) : Readable(fs, targs.input[k])
    /\ \E k \in 1..Len(targs.input) :
           fs[targs.input[k]].schema # fs[targs.input[1]].schema

\* C11: a merge of inputs with differing schemas fails with the schema
\* error and leaves no file at the output path
SchemaMismatchRejection ==
    (cmd = "merge" /\ tpc = "returned" /\ SchemasDiffer)
        => /\ faults = 0 => result = ErrSchema
           /\ result = ErrSchema => targs.output \notin DOMAIN fs

\* C12: a merge that succeeds leaves one closed output whose row groups are
\* those of the inputs, concatenated in command line order
MergeCompleteness ==
    (cmd = "merge" /\ tpc = "returned" /\ result = Ok)
        => LET out == fs[targs.output]
           IN /\ out.closed
              /\ LogicalGroups(out) = ConcatLogical(targs.input, 1)
              /\ Len(out.row_groups) = SumGroupsOfFiles(targs.input, 1)
              /\ SumNumRows(out.row_groups) = SumRowsOfFiles(targs.input, 1)

MergeCompletenessWitness ==
    /\ cmd = "merge"
    /\ result = Ok
    /\ targs.input = <<(<<"a", 0>>), (<<"b", 0>>)>>
    /\ Len(fs[targs.output].row_groups) = 3

\* <prefix>_<NNNN>.parquet for the index k < 10000
PartFile(k) ==
    <<SplitPrefix, <<k \div 1000, (k \div 100) % 10, (k \div 10) % 10, k % 10>>>>

\* the files a split has created
SplitParts == {p \in DOMAIN fs : p[1] = SplitPrefix}

\* C13: a split with groups = G >= 1 of N row groups creates the files
\* 0..ceil(N/G)-1, all with G row groups but the last, which has the rest
PartitionSizing ==
    (cmd = "split" /\ tpc = "returned" /\ result = Ok /\ targs.groups >= 1)
        => LET N == Len(fs[targs.input].row_groups)
               G == targs.groups
               M == CeilDiv(N, G)
           IN /\ SplitParts = {PartFile(k) : k \in 0..(M - 1)}
              /\ \A k \in 0..(M - 1) :
                    /\ fs[PartFile(k)].closed
                    /\ Len(fs[PartFile(k)].row_groups) =
                           IF k < M - 1 THEN G ELSE N - G * (M - 1)
              /\ M > 0 => (N - G * (M - 1)) \in 1..G

PartitionSizingWitness ==
    /\ cmd = "split"
    /\ result = Ok
    /\ targs.groups = 3
    /\ Len(fs[targs.input].row_groups) = 7
    /\ [k \in 1..3 |-> Len(fs[PartFile(k - 1)].row_groups)] = <<3, 3, 1>>

\* the outputs a split has created so far, in index order
PartPaths == [k \in 1..output_idx |-> PartFile(k - 1)]

\* the indexes of the outputs that hold the j-th row group of the source
PartsHolding(j) ==
    {k \in 0..(output_idx - 1) :
        LET part == fs[PartFile(k)]
        IN \E g \in 1..Len(part.row_groups) :
              LogicalGroup(part, part.row_groups[g]) =
                  LogicalGroup(fs[targs.input],
                               fs[targs.input].row_groups[j])}

\* C14: the outputs of a split, concatenated in index order, are the row
\* groups taken from the source so far; every row group is in one output and
\* consecutive row groups are in the same or in consecutive outputs
SplitOrderPreserved ==
    (cmd = "split" /\ tpc \in {"while", "for", "returned"}
                   /\ result \in {"none", Ok})
        => /\ ConcatLogical(PartPaths, 1) =
                  SubSeq(LogicalGroups(fs[targs.input]), 1, rg_pos)
           /\ \A j \in 1..rg_pos : Cardinality(PartsHolding(j)) = 1
           /\ \A j \in 1..(rg_pos - 1) :
                  \A k \in PartsHolding(j) : \A l \in PartsHolding(j + 1) :
                      l - k \in {0, 1}

SplitOrderPreservedWitness ==
    /\ cmd = "split"
    /\ result = Ok
    /\ targs.groups = 2
    /\ rg_pos = 5
    /\ output_idx = 3

\* the original statement of C15: for any input, a split with groups = 1
\* followed by the merge of its parts succeeds and reproduces the input
RoundTrip ==
    (cmd = "merge" /\ origin # NoOrigin /\ origin.groups = 1
                   /\ tpc = "returned" /\ faults = 0)
        => /\ result = Ok
           /\ fs[targs.output].schema = fs[origin.input].schema
           /\ LogicalGroups(fs[targs.output]) =
                  LogicalGroups(fs[origin.input])

\* C15: for an input of at least one row group, a split with groups = 1
\* followed by the merge of its parts in index order succeeds and yields a
\* container of the same schema and the same row-group sequence
RoundTripNonEmpty ==
    (cmd = "merge" /\ origin # NoOrigin /\ origin.groups = 1
                   /\ tpc = "returned" /\ faults = 0
                   /\ Len(fs[origin.input].row_groups) >= 1)
        => /\ result = Ok
           /\ fs[targs.output].closed
           /\ fs[targs.output].schema = fs[origin.input].schema
           /\ LogicalGroups(fs[targs.output]) =
                  LogicalGroups(fs[origin.input])

RoundTripWitness ==
    /\ cmd = "merge"
    /\ origin.groups = 1
    /\ Len(fs[origin.input].row_groups) = 3
    /\ result = Ok
    /\ Len(targs.input) = 3

\* the file a chunk's bytes were laid out in
SourceOfBytes(tok) ==
    IF tok[1] = "src" THEN SourcePath(MaxGroups) ELSE <<tok[1], 0>>

\* the row group d of the container dst is the row group s of src but for
\* the offsets of its chunks
SameButOffsets(dst, d, src, s) ==
    /\ Len(d.columns) = Len(s.columns)
    /\ d.num_rows = s.num_rows
    /\ \A c \in 1..Len(s.columns) :
          /\ [d.columns[c] EXCEPT !.offset = 0] =
                 [s.columns[c] EXCEPT !.offset = 0]
          /\ \E e \in 1..Len(dst.extents) :
                /\ dst.extents[e].offset = d.columns[c].offset
                /\ dst.extents[e].len = s.columns[c].compressed_size
                /\ dst.extents[e].bytes =
                       ReadRange(src, s.columns[c].offset,
                                 s.columns[c].compressed_size)

\* C16: every row group that merge or split has written has the chunks of
\* its source row group, in the same order, with the source's payload,
\* row count and metadata; only the offsets are new
TransplantFrame ==
    \A p \in DOMAIN fs \ DOMAIN InitialFiles :
        \A g \in 1..Len(fs[p].row_groups) :
            LET d == fs[p].row_groups[g]
                tok == ReadRange(fs[p], d.columns[1].offset,
                                 d.columns[1].compressed_size)
            IN /\ tok[1] # "garbage"
               /\ SameButOffsets(fs[p], d, InitialFiles[SourceOfBytes(tok)],
                      InitialFiles[SourceOfBytes(tok)].row_groups[tok[2]])

TransplantFrameWitness ==
    /\ cmd = "split"
    /\ tpc = "for"
    /\ writer # NoWriter
    /\ Len(fs[writer.path].row_groups) = 2
    /\ fs[writer.path].row_groups[2].columns[1].offset #
           inputs[1].metadata.row_groups[rg_pos].columns[1].offset

\* C17: when merge or split returns, every container it opened is closed,
\* also when starting a row group, appending a chunk or closing a row group
\* returned an error
CloseOnAllPaths ==
    (tpc = "returned" /\ result # ErrIoClose)
        => \A p \in DOMAIN fs : fs[p].magic => fs[p].closed

(***************************************************************************)
(* The three commands together                                             *)
(***************************************************************************)

ToolInit == Init \/ TransplantInit

ToolNext == Next \/ TransplantNext

ToolSpec == ToolInit /\ [][ToolNext]_vars

\* C18: a closed container never changes again and is never created again,
\* and a worker that closed its writer writes no further batch
NoAppendAfterClose ==
    [][/\ \A p \in DOMAIN fs :
             fs[p].closed => (p \in DOMAIN fs' /\ fs'[p] = fs[p])
       /\ \A i \in Workers :
             worker[i] = "finished" =>
                 (worker'[i] = "finished" /\ file'[i] = file[i])
       /\ \A x \in created' \ created :
             \A y \in created : y[1] # x[1]]_vars

NoAppendAfterCloseWitness ==
    /\ cmd = "split"
    /\ tpc = "for"
    /\ output_idx = 2
    /\ fs[PartFile(0)].closed
    /\ Len(fs[writer.path].row_groups) = 1

(***************************************************************************)
(* Further properties of the repartition                                   *)
(***************************************************************************)

\* the batches worker i received and wrote without error, in the order in
\* which it received them
WrittenBy(i) ==
    LET w == SelectSeq(dequeued[i],
                       LAMBDA m : /\ m.tag = "CONTENT"
                                  /\ <<i, m.data>> \notin writeFailed)
    IN [k \in 1..Len(w) |-> w[k].data]

\* C19: every output file holds its batches in the order in which its
\* worker dequeued them, which is the source order
WithinFileOrdering ==
    \A i \in Workers :
        /\ file[i] = WrittenBy(i)
        /\ \A j \in 1..Len(file[i]) : \A k \in 1..Len(file[i]) :
               j < k => file[i][j] < file[i][k]

WithinFileOrderingWitness ==
    \E i \in Workers : \E j \in Workers :
        /\ i # j
        /\ Len(file[i]) = 2
        /\ Len(file[j]) = 1
        /\ file[i][1] < file[j][1]
        /\ file[j][1] < file[i][2]

\* C20: a repartition that returns has created the files of the indexes
\* 0..total_tasks-1 (each index is one decimal digit here), each created,
\* written and closed by one worker, and no name ever has two owners
OutputSetOwnership ==
    /\ \A x \in created : \A y \in created : x[1] = y[1] => x[2] = y[2]
    /\ mainPc = "returned" =>
          /\ {x[1] : x \in created} = {<<i>> : i \in 0..(total_tasks - 1)}
          /\ \A i \in Workers : <<(<<i>>), i>> \in created /\ closes[i] = 1

OutputSetOwnershipWitness ==
    /\ mainPc = "returned"
    /\ total_tasks = 3
    /\ Cardinality(created) = 3
    /\ \E i \in Workers : file[i] # <<>>

(***************************************************************************)
(* Properties of a second run                                              *)
(***************************************************************************)

\* no worker of the run, nor of the run before it, left its receive loop on
\* a timeout
NoTimeouts ==
    /\ \A i \in DOMAIN endedBy : endedBy[i] = "done"
    /\ \A i \in DOMAIN previous.endedBy : previous.endedBy[i] = "done"

\* C21: the second run of a repartition command, on a source that decodes
\* as in the first run and without an I/O fault or a timeout, leaves in every output
\* file the rows the first run left there, in the same order, and nothing
\* of the first run's content is kept in addition
RerunDeterminism ==
    (previous.ran /\ mainPc = "returned" /\ faults = 0 /\ ~decodeFailed
                  /\ NoTimeouts)
        => /\ \A i \in Workers : file[i] = WrittenBy(i)
           /\ file = previous.outputs

(***************************************************************************)
(* Further properties of split                                             *)
(***************************************************************************)

\* C22: a split with groups = 0 of an input that has a row group creates
\* no output file and returns an error
ZeroGroupsRejected ==
    (/\ cmd = "split"
     /\ targs.groups = 0
     /\ Readable(InitialFiles, targs.input)
     /\ Len(InitialFiles[targs.input].row_groups) >= 1)
        => /\ SplitParts = {}
           /\ tpc = "returned" => result \notin {"none", Ok}

(***************************************************************************)
(* Further properties of the threads of the repartition                    *)
(***************************************************************************)

\* every worker closed its output once and main has joined them all
AllJoined ==
    /\ mainPc = "returned"
    /\ joined = total_tasks
    /\ \A i \in Workers : worker[i] = "finished" /\ closes[i] = 1
    /\ credits = args.jobs

\* C23: once the reader thread has stopped, every worker leaves its receive
\* loop, closes its output and returns its credit, and main joins all
\* total_tasks workers, unless an I/O call of a worker fails
ProducerStopDoesNotHang ==
    (readerPc = "exited") ~> (faults > 0 \/ AllJoined)

\* worker threads that were started and have not ended
LiveWorkers ==
    {i \in Workers : worker[i] \in {"spawned", "open", "closing"}}

\* C24: once the pool is filled, the credits in the pool and the workers that were started and have
\* not finished add up to jobs, and the pool holds jobs credits again when
\* every worker has completed
CreditConservation ==
    readerPc # "unborn" =>
        /\ credits + Cardinality(LiveWorkers) = args.jobs
        /\ (\A i \in Workers : worker[i] = "finished") => credits = args.jobs

\* no receive of the run has timed out
NoReceiveTimedOut == \A i \in Workers : endedBy[i] # "timeout"

\* C25: with more output files than jobs and no receive timed out, a worker
\* of index >= jobs is started only after an earlier worker dequeued a DONE,
\* dequeues nothing but a DONE and leaves its file without rows, so that
\* every batch is dequeued by one of the workers 0..jobs-1
LateWorkersNoData ==
    (total_tasks > args.jobs /\ NoReceiveTimedOut)
        => \A i \in Workers :
              i >= args.jobs =>
                 /\ worker[i] # "unborn" =>
                        \E j \in Workers : j < i /\ endedBy[j] = "done"
                 /\ \A k \in 1..Len(dequeued[i]) : dequeued[i][k] = DONE
                 /\ Len(dequeued[i]) <= 1
                 /\ file[i] = <<>>

LateWorkersNoDataWitness ==
    /\ mainPc = "returned"
    /\ total_tasks = 3
    /\ args.jobs = 2
    /\ NoReceiveTimedOut
    /\ file[0] # <<>>
    /\ file[1] # <<>>
    /\ dequeued[2] = <<DONE>>
    /\ closes[2] = 1

\* C26: under a limit of row_limit_per_file > 0 rows per file no output
\* file holds more rows than the limit
RowsPerFileLimit ==
    row_limit_per_file > 0 =>
        \A i \in Workers :
            SumRows(total_rows, file[i]) <= row_limit_per_file

\* C27: for every jobs value, 0 included, main takes a credit for each of
\* the total_tasks workers, joins them all and returns, unless an I/O call
\* of a worker fails
RepartitionTerminates ==
    (mainPc = "run") ~> (faults > 0 \/ mainPc = "returned")

\* C28: the limit that total_tasks is computed from is the product of
\* groups and size, and the multiplication does not overflow
RowLimitExact ==
    /\ "attempt to multiply with overflow" \notin reported
    /\ mainPc \in {"setup", "run", "returned"} =>
          IF args.max_row_group_size = 0
          THEN row_limit_per_file = 0
          ELSE /\ row_limit_per_file % args.max_row_group_size = 0
               /\ row_limit_per_file \div args.max_row_group_size =
                      args.max_row_group_count

====
